---- MODULE Spec2Model ----
(***************************************************************************)
(* Model of the ERP to Core Tax converter (src/main.py): the row           *)
(* transformer CoreTaxConverter.process_sales_data with its helpers, the   *)
(* spreadsheet emitter CoreTaxConverter.create_core_tax_excel, and the     *)
(* request handler convert_file that chains them.                          *)
(*                                                                         *)
(* Python values are records [k, n, s]:                                    *)
(*   k = "none"            None                                            *)
(*   k = "nan"             float('nan') (an empty cell read by pandas)     *)
(*   k = "inf" / "ninf"    float('inf') / float('-inf')                    *)
(*   k = "num"             a finite number, n hundredths (n = 290 is 2.9)  *)
(*   k = "str"             a string, s its sequence of characters          *)
(*   k = "ts"              a pandas Timestamp (a date cell)                *)
(*   k = "series"          a pandas Series (row.get on a duplicated label) *)
(*   k = "raise"           not a value: the call raised an exception       *)
(* Finite numbers are carried exactly at a resolution of 1/100; quotients  *)
(* are exact rationals <<num, den>> until the code rounds them.            *)
(***************************************************************************)
EXTENDS Integers, Sequences, FiniteSets, TLC

VARIABLES
    call,            \* entry point in progress: "convert", "render" or "fn"
    pc,              \* position inside the entry point
    upload,          \* the uploaded file of convert_file: [ext_ok, readable]
    sales_df,        \* the DataFrame: [columns, rows]
    sales_df0,       \* the DataFrame as it was when process_sales_data was entered
    i,               \* loop position (rows or records consumed so far)
    processed_data,  \* the list of records built so far / handed to the emitter
    wb,              \* the workbook: sequence of sheets [name, cells]
    today,           \* datetime.now() of this run, <<year, month, day>>
    libc_pads_year,  \* whether the platform's strftime pads %Y to four digits
    fn,              \* direct call of a helper: its name
    arg,             \* direct call of a helper: its argument
    ret,             \* direct call of a helper: its result
    response         \* what convert_file ended with

vars == <<call, pc, upload, sales_df, sales_df0, i, processed_data, wb, today,
          libc_pads_year, fn, arg, ret, response>>

----------------------------------------------------------------------------
(* Bounds of the model *)

\* most rows in a multi-row table
MaxRows == 2
\* most records handed directly to the emitter
MaxRecords == 2

----------------------------------------------------------------------------
(* Characters and strings *)

Digits == <<"0", "1", "2", "3", "4", "5", "6", "7", "8", "9">>

IsDigit(c) == \E d \in 1..10 : Digits[d] = c

DigitVal(c) == (CHOOSE d \in 1..10 : Digits[d] = c) - 1

Dig(n) == Digits[n + 1]

UpperLetters == <<"A", "B", "C", "D", "E", "F", "G", "H", "I", "J", "K", "L", "M",
                  "N", "O", "P", "Q", "R", "S", "T", "U", "V", "W", "X", "Y", "Z">>

LowerLetters == <<"a", "b", "c", "d", "e", "f", "g", "h", "i", "j", "k", "l", "m",
                  "n", "o", "p", "q", "r", "s", "t", "u", "v", "w", "x", "y", "z">>

\* str.lower() on one character
LowerChar(c) ==
    IF \E u \in 1..26 : UpperLetters[u] = c
    THEN LowerLetters[CHOOSE u \in 1..26 : UpperLetters[u] = c]
    ELSE c

\* str.lower()
Lower(s) == [j \in 1..Len(s) |-> LowerChar(s[j])]

\* the characters str.strip() removes
Whitespace == {" ", "\t", "\n"}

RECURSIVE LStrip(_)
LStrip(s) ==
    IF s # <<>> /\ Head(s) \in Whitespace THEN LStrip(Tail(s)) ELSE s

RECURSIVE RStrip(_)
RStrip(s) ==
    IF s # <<>> /\ s[Len(s)] \in Whitespace
    THEN RStrip(SubSeq(s, 1, Len(s) - 1))
    ELSE s

\* str.strip()
Strip(s) == RStrip(LStrip(s))

\* s[:n]
Prefix(s, n) == SubSeq(s, 1, IF Len(s) < n THEN Len(s) ELSE n)

\* c repeated n times
Rep(c, n) == [j \in 1..n |-> c]

\* the characters openpyxl refuses in a cell (control characters); "BEL" is \x07
IllegalChars == {"BEL"}

----------------------------------------------------------------------------
(* Python values *)

None == [k |-> "none", n |-> 0, s |-> <<>>]
NaN == [k |-> "nan", n |-> 0, s |-> <<>>]
Inf == [k |-> "inf", n |-> 0, s |-> <<>>]
NegInf == [k |-> "ninf", n |-> 0, s |-> <<>>]
Timestamp == [k |-> "ts", n |-> 0, s |-> <<>>]
Series == [k |-> "series", n |-> 0, s |-> <<>>]
Raise == [k |-> "raise", n |-> 0, s |-> <<>>]

Num(c) == [k |-> "num", n |-> c, s |-> <<>>]

Str(chars) == [k |-> "str", n |-> 0, s |-> chars]

IsFloat(v) == v.k \in {"nan", "inf", "ninf", "num"}

\* math.isfinite
IsFinite(v) == v.k = "num"

\* pd.isna on a scalar
IsNa(v) == v.k \in {"none", "nan"}

----------------------------------------------------------------------------
(* Exact arithmetic *)

Abs(x) == IF x < 0 THEN -x ELSE x

RECURSIVE GCD(_, _)
GCD(a, b) == IF b = 0 THEN a ELSE GCD(b, a % b)

\* n/d rounded to the nearest integer, ties to the even one (d > 0)
RoundHalfEven(n, d) ==
    LET q == n \div d
        r == n % d
    IN  IF 2 * r < d THEN q
        ELSE IF 2 * r > d THEN q + 1
        ELSE IF q % 2 = 0 THEN q ELSE q + 1

\* round(x, 2) of the rational x = q[1]/q[2] units, in hundredths
Round2(q) ==
    LET g == GCD(100, q[2])
    IN  RoundHalfEven(q[1] * (100 \div g), q[2] \div g)

\* the rational a/b of two amounts given in hundredths, in lowest terms (b > 0)
Quot(a, b) ==
    LET g == GCD(Abs(a), b)
    IN  IF g = 0 THEN <<0, 1>> ELSE <<a \div g, b \div g>>

\* the rational q times the amount r given in hundredths
QuotTimes(q, r) ==
    LET g == GCD(Abs(q[1] * r), q[2] * 100)
    IN  IF g = 0 THEN <<0, 1>> ELSE <<(q[1] * r) \div g, (q[2] * 100) \div g>>

----------------------------------------------------------------------------
(* CoreTaxConverter: numeric cleaning and tax derivation *)

\* self.ppn_rate = 0.12, in hundredths
ppn_rate == 12

\* the longest run of integer digits float() still parses to a finite double
\* (sys.float_info.max has 309 of them); every longer one parses to infinity
FloatMaxDigits == 309

\* the characters re.sub(r'[^\d.-]', '', s) keeps
IsNumericChar(c) == IsDigit(c) \/ c \in {".", "-"}

\* re.sub(r'[^\d.-]', '', s)
KeepNumeric(s) == SelectSeq(s, IsNumericChar)

RECURSIVE IntOf(_)
IntOf(ds) ==
    IF ds = <<>> THEN 0 ELSE IntOf(SubSeq(ds, 1, Len(ds) - 1)) * 10 + DigitVal(ds[Len(ds)])

RECURSIVE Pow10(_)
Pow10(e) == IF e = 0 THEN 1 ELSE 10 * Pow10(e - 1)

\* ds without its leading zeros
DropZeros(ds) ==
    LET zeros == {j \in 1..Len(ds) : \A h \in 1..j : ds[h] = "0"}
    IN  SubSeq(ds, Cardinality(zeros) + 1, Len(ds))

\* float(cleaned) for a string of digits, '.' and '-': Raise stands for ValueError
ParseFloat(cleaned) ==
    LET neg  == cleaned # <<>> /\ Head(cleaned) = "-"
        body == IF neg THEN Tail(cleaned) ELSE cleaned
        dots == {j \in 1..Len(body) : body[j] = "."}
        ok   == /\ \A j \in 1..Len(body) : body[j] # "-"
                /\ Cardinality(dots) <= 1
                /\ \E j \in 1..Len(body) : IsDigit(body[j])
        dot  == IF dots = {} THEN Len(body) + 1 ELSE CHOOSE j \in dots : TRUE
        ip   == SubSeq(body, 1, dot - 1)
        fp   == SubSeq(body, dot + 1, Len(body))
        mag  == IntOf(ip) * 100 + RoundHalfEven(IntOf(fp) * 100, Pow10(Len(fp)))
    IN  IF ~ok THEN Raise
        ELSE IF Len(DropZeros(ip)) > FloatMaxDigits THEN (IF neg THEN NegInf ELSE Inf)
        ELSE Num(IF neg THEN -mag ELSE mag)

\* the string branch of clean_numeric_value returns float(cleaned) unless it is NaN
StrResult(result) ==
    IF result.k = "raise" \/ result.k = "nan" THEN Num(0) ELSE result

clean_numeric_value(value) ==
    IF value.k = "series" THEN Raise
    ELSE IF IsNa(value) \/ value = Str(<<>>) \/ value = Str(<<"N", "a", "N">>) THEN Num(0)
    ELSE IF value.k = "str" THEN
        IF Strip(Lower(value.s)) = <<"n", "a", "n">> THEN Num(0)
        ELSE LET cleaned == KeepNumeric(value.s)
             IN  IF cleaned = <<>> \/ cleaned = <<"-">> \/ cleaned = <<".">> THEN Num(0)
                 ELSE StrResult(ParseFloat(cleaned))
    ELSE IF value.k = "num" THEN value
    ELSE Num(0)

\* safe_round(value, 2) of a finite amount
safe_round(value) ==
    IF value.k = "num" THEN value ELSE Num(0)

\* safe_round((a / b) if b > 0 else 0, 2) for a finite a
safe_round_quot(a, b) ==
    IF b.k = "num" /\ b.n > 0 THEN Num(Round2(Quot(a.n, b.n))) ELSE Num(0)

\* ppn computed from the rounded dpp instead
PpnOfRounded(dpp) == QuotTimes(<<Round2(dpp), 100>>, ppn_rate)

\* ppn = dpp * self.ppn_rate, on the unrounded dpp
PpnOf(dpp) == QuotTimes(dpp, ppn_rate)

\* calculate_dpp_and_ppn: <<dpp, ppn>>; a ValueError of the cleaning is caught
\* by the except clause, which returns (0.0, 0.0)
calculate_dpp_and_ppn(price_after_tax) ==
    LET p == clean_numeric_value(price_after_tax)
    IN  IF p.k = "raise" THEN <<Num(0), Num(0)>>
        ELSE IF p.k # "num" \/ p.n <= 0 THEN <<Num(0), Num(0)>>
        ELSE LET dpp == Quot(p.n, 100 + ppn_rate)
                 ppn == PpnOf(dpp)
             IN  <<Num(Round2(dpp)), Num(Round2(ppn))>>

----------------------------------------------------------------------------
(* CoreTaxConverter.format_date *)

\* the decimal digits of n >= 0, without padding
RECURSIVE Decimal(_)
Decimal(n) == IF n < 10 THEN <<Dig(n)>> ELSE Decimal(n \div 10) \o <<Dig(n % 10)>>

\* n written with at least w digits, zero-padded
Padded(n, w) ==
    LET ds == Decimal(n)
    IN  IF Len(ds) >= w THEN ds ELSE Rep("0", w - Len(ds)) \o ds

\* the pieces of s between occurrences of sep
RECURSIVE Split(_, _)
Split(s, sep) ==
    IF \A j \in 1..Len(s) : s[j] # sep THEN <<s>>
    ELSE LET at == CHOOSE j \in 1..Len(s) : s[j] = sep /\ \A h \in 1..(j - 1) : s[h] # sep
         IN  <<SubSeq(s, 1, at - 1)>> \o Split(SubSeq(s, at + 1, Len(s)), sep)

AllDigits(p) == \A j \in 1..Len(p) : IsDigit(p[j])

\* %d without the alternative of a space before one digit
MatchesDayNoSpace(p) ==
    \/ Len(p) = 2 /\ AllDigits(p) /\ IntOf(p) \in 1..31
    \/ Len(p) = 1 /\ AllDigits(p) /\ IntOf(p) \in 1..9

\* strptime's %d: 3[0-1] | [1-2]\d | 0[1-9] | [1-9] | ' '[1-9]
MatchesDay(p) ==
    \/ Len(p) = 2 /\ AllDigits(p) /\ IntOf(p) \in 1..31
    \/ Len(p) = 1 /\ AllDigits(p) /\ IntOf(p) \in 1..9
    \/ Len(p) = 2 /\ p[1] = " " /\ IsDigit(p[2]) /\ DigitVal(p[2]) \in 1..9

DayOf(p) == IF p[1] = " " THEN DigitVal(p[2]) ELSE IntOf(p)

\* strptime's %m: 1[0-2] | 0[1-9] | [1-9]
MatchesMonth(p) ==
    \/ Len(p) = 2 /\ AllDigits(p) /\ IntOf(p) \in 1..12
    \/ Len(p) = 1 /\ AllDigits(p) /\ IntOf(p) \in 1..9

\* strptime's %y: \d\d, 69..99 are 1969..1999 and 00..68 are 2000..2068
MatchesYear2(p) == Len(p) = 2 /\ AllDigits(p)

\* the pivot of %y moved to 50
Year2OfPivot50(p) == IF IntOf(p) <= 50 THEN 2000 + IntOf(p) ELSE 1900 + IntOf(p)

Year2Of(p) == IF IntOf(p) <= 68 THEN 2000 + IntOf(p) ELSE 1900 + IntOf(p)

\* strptime's %Y: \d\d\d\d
MatchesYear4(p) == Len(p) = 4 /\ AllDigits(p)

IsLeap(y) == (y % 4 = 0 /\ y % 100 # 0) \/ y % 400 = 0

DaysIn(m, y) ==
    IF m = 2 THEN (IF IsLeap(y) THEN 29 ELSE 28)
    ELSE IF m \in {4, 6, 9, 11} THEN 30 ELSE 31

\* datetime(y, m, d) exists (MINYEAR is 1)
ValidDate(y, m, d) == y >= 1 /\ m \in 1..12 /\ d >= 1 /\ d <= DaysIn(m, y)

\* date_formats = ['%d.%m.%y', '%d/%m/%Y', '%Y-%m-%d', '%d-%m-%Y']
date_formats ==
    << [sep |-> ".", order |-> "dmy", year4 |-> FALSE],
       [sep |-> "/", order |-> "dmy", year4 |-> TRUE],
       [sep |-> "-", order |-> "ymd", year4 |-> TRUE],
       [sep |-> "-", order |-> "dmy", year4 |-> TRUE] >>

\* datetime.strptime(s, fmt): <<y, m, d>>, or <<>> for ValueError
strptime(s, fmt) ==
    LET parts == Split(s, fmt.sep)
    IN  IF Len(parts) # 3 THEN <<>>
        ELSE LET dp == IF fmt.order = "dmy" THEN parts[1] ELSE parts[3]
                 mp == parts[2]
                 yp == IF fmt.order = "dmy" THEN parts[3] ELSE parts[1]
                 ok == /\ MatchesDay(dp)
                       /\ MatchesMonth(mp)
                       /\ IF fmt.year4 THEN MatchesYear4(yp) ELSE MatchesYear2(yp)
             IN  IF ~ok THEN <<>>
                 ELSE LET y == IF fmt.year4 THEN IntOf(yp) ELSE Year2Of(yp)
                          m == IntOf(mp)
                          d == DayOf(dp)
                      IN  IF ValidDate(y, m, d) THEN <<y, m, d>> ELSE <<>>

\* date.strftime('%Y-%m-%d'); pads tells whether the C library pads %Y
strftime(date, pads) ==
    (IF pads THEN Padded(date[1], 4) ELSE Decimal(date[1]))
        \o <<"-">> \o Padded(date[2], 2) \o <<"-">> \o Padded(date[3], 2)

\* the loop over date_formats from position f on: first successful parse wins
RECURSIVE TryFormats(_, _)
TryFormats(s, f) ==
    IF f > Len(date_formats) THEN <<>>
    ELSE IF strptime(s, date_formats[f]) # <<>> THEN strptime(s, date_formats[f])
    ELSE TryFormats(s, f + 1)

\* format_date(date_value) when datetime.now() is now
format_date(date_value, now, pads) ==
    IF date_value.k = "series" THEN Raise
    ELSE IF IsNa(date_value) THEN Str(strftime(now, pads))
    ELSE IF date_value.k = "str" /\ TryFormats(date_value.s, 1) # <<>>
         THEN Str(strftime(TryFormats(date_value.s, 1), pads))
    ELSE Str(strftime(now, pads))

----------------------------------------------------------------------------
(* Records *)

\* '310000'
DefaultCode ==
    <<"3", "1", "0", "0", "0", "0">>

\* 'Barang/Jasa'
DefaultName ==
    <<"B", "a", "r", "a", "n", "g", "/", "J", "a", "s", "a">>

\* 'UM.0003'
UnitLabel ==
    <<"U", "M", ".", "0", "0", "0", "3">>

\* 'Data Error - Manual Review Required'
SentinelName ==
    <<"D", "a", "t", "a", " ", "E", "r", "r", "o", "r", " ", "-", " ", "M", "a", "n",
    "u", "a", "l", " ", "R", "e", "v", "i", "e", "w", " ", "R", "e", "q", "u", "i", "r",
    "e", "d">>

\* '2024-03-15 00:00:00'
TimestampText ==
    <<"2", "0", "2", "4", "-", "0", "3", "-", "1", "5", " ", "0", "0", ":", "0", "0",
    ":", "0", "0">>

\* the keys of a record, in the order of the dict literal
RecordKeys ==
    <<"baris", "barang_jasa", "kode_barang_jasa", "nama_barang_jasa",
      "nama_satuan_ukur", "harga_satuan", "jumlah_barang_jasa", "total_diskon",
      "dpp", "dpp_nilai_lain", "tarif_ppn", "ppn", "tarif_ppnbm", "ppnbm",
      "customer_code", "customer_name", "invoice_no", "invoice_date", "total_amount">>

\* the keys validate_record zeroes to 0.0 rather than 0
FloatKeys ==
    {"harga_satuan", "dpp", "dpp_nilai_lain", "ppn", "ppnbm", "total_diskon",
     "total_amount"}

\* validate_record that blanks only the exact spelling 'nan'
validate_value_exact(key, value) ==
    IF IsFloat(value) THEN (IF IsFinite(value) THEN value ELSE Num(0))
    ELSE IF value.k = "str" THEN
        (IF value.s # <<"n", "a", "n">> THEN value ELSE Str(<<>>))
    ELSE value

\* validate_record that strips the strings it keeps
validate_value_stripped(key, value) ==
    IF IsFloat(value) THEN (IF IsFinite(value) THEN value ELSE Num(0))
    ELSE IF value.k = "str" THEN
        (IF Lower(value.s) # <<"n", "a", "n">> THEN Str(Strip(value.s)) ELSE Str(<<>>))
    ELSE value

\* validate_record on one value
validate_value(key, value) ==
    IF IsFloat(value) THEN (IF IsFinite(value) THEN value ELSE Num(0))
    ELSE IF value.k = "str" THEN
        (IF Lower(value.s) # <<"n", "a", "n">> THEN value ELSE Str(<<>>))
    ELSE value

validate_record(record) ==
    [key \in DOMAIN record |-> validate_value(key, record[key])]

\* the fallback record with quantity 0
create_fallback_record_no_quantity(row_number, now, pads) ==
    [baris |-> Num(row_number * 100),
     barang_jasa |-> Str(<<"A">>),
     kode_barang_jasa |-> Str(DefaultCode),
     nama_barang_jasa |-> Str(SentinelName),
     nama_satuan_ukur |-> Str(UnitLabel),
     harga_satuan |-> Num(0),
     jumlah_barang_jasa |-> Num(0),
     total_diskon |-> Num(0),
     dpp |-> Num(0),
     dpp_nilai_lain |-> Num(0),
     tarif_ppn |-> Num(1200),
     ppn |-> Num(0),
     tarif_ppnbm |-> Num(0),
     ppnbm |-> Num(0),
     customer_code |-> Str(<<>>),
     customer_name |-> Str(<<>>),
     invoice_no |-> Str(<<>>),
     invoice_date |-> Str(strftime(now, pads)),
     total_amount |-> Num(0)]

create_fallback_record(row_number, now, pads) ==
    [baris |-> Num(row_number * 100),
     barang_jasa |-> Str(<<"A">>),
     kode_barang_jasa |-> Str(DefaultCode),
     nama_barang_jasa |-> Str(SentinelName),
     nama_satuan_ukur |-> Str(UnitLabel),
     harga_satuan |-> Num(0),
     jumlah_barang_jasa |-> Num(100),
     total_diskon |-> Num(0),
     dpp |-> Num(0),
     dpp_nilai_lain |-> Num(0),
     tarif_ppn |-> Num(1200),
     ppn |-> Num(0),
     tarif_ppnbm |-> Num(0),
     ppnbm |-> Num(0),
     customer_code |-> Str(<<>>),
     customer_name |-> Str(<<>>),
     invoice_no |-> Str(<<>>),
     invoice_date |-> Str(strftime(now, pads)),
     total_amount |-> Num(0)]

----------------------------------------------------------------------------
(* The DataFrame and CoreTaxConverter.process_sales_data *)

\* a column label: a string (name, padded with whitespace or not), an integer,
\* or the NaN that .str.strip() leaves for a non-string label among strings
StrLabel(name, pad) == [t |-> "str", name |-> name, pad |-> pad]
IntLabel(name) == [t |-> "int", name |-> name, pad |-> FALSE]
NaNLabel == [t |-> "nan", name |-> "", pad |-> FALSE]

\* sales_df.columns.str raises AttributeError when no label is a string
StrAccessorRaises(columns) ==
    columns # <<>> /\ \A j \in 1..Len(columns) : columns[j].t # "str"

\* sales_df.columns.str.strip()
StripColumns(columns) ==
    [j \in 1..Len(columns) |->
        IF columns[j].t = "str" THEN StrLabel(columns[j].name, FALSE) ELSE NaNLabel]

\* row.get(name, default): a duplicated label yields a Series
Get(columns, row, name, default) ==
    LET at == {j \in 1..Len(columns) : columns[j] = StrLabel(name, FALSE)}
    IN  IF at = {} THEN default
        ELSE IF Cardinality(at) = 1 THEN row[CHOOSE j \in at : TRUE]
        ELSE Series

\* repr of a finite float of n hundredths
FloatRepr(n) ==
    LET a == Abs(n)
        h == a % 100
    IN  (IF n < 0 THEN <<"-">> ELSE <<>>) \o Decimal(a \div 100) \o <<".">>
            \o (IF h % 10 = 0 THEN <<Dig(h \div 10)>> ELSE Padded(h, 2))

\* str(value)
PyStr(value) ==
    IF value.k = "str" THEN value.s
    ELSE IF value.k = "num" THEN FloatRepr(value.n)
    ELSE IF value.k = "nan" THEN <<"n", "a", "n">>
    ELSE IF value.k = "inf" THEN <<"i", "n", "f">>
    ELSE IF value.k = "ninf" THEN <<"-", "i", "n", "f">>
    ELSE IF value.k = "none" THEN <<"N", "o", "n", "e">>
    ELSE IF value.k = "ts" THEN TimestampText
    ELSE <<"S", "e", "r", "i", "e", "s">>

\* max(value, floor) without the floor
PyMaxNoFloor(value, floor) == value

\* max(value, floor) for a float value and an integer floor given in hundredths
PyMax(value, floor) ==
    IF value.k = "inf" THEN value
    ELSE IF value.k = "ninf" THEN Num(floor)
    ELSE IF floor > value.n THEN Num(floor) ELSE value

\* value >= 0 in place of value > 0
NotNegative(value) == value.k = "inf" \/ (value.k = "num" /\ value.n >= 0)

\* value > 0
Positive(value) == value.k = "inf" \/ (value.k = "num" /\ value.n > 0)

\* int(qty) if qty > 0 else 1; Raise stands for the OverflowError of int(inf)
QuantityOf(qty) ==
    IF ~Positive(qty) THEN Num(100)
    ELSE IF qty.k = "num" THEN Num((qty.n \div 100) * 100)
    ELSE Raise

\* the body of the try block for the row at index idx: the validated record,
\* or Raise when any statement of the block raises
build_record(columns, row, idx, now, pads) ==
    LET customer_code  == Strip(PyStr(Get(columns, row, "CustomerCode", Str(<<>>))))
        customer_name  == Strip(PyStr(Get(columns, row, "CustomerName", Str(<<>>))))
        invoice_no     == Strip(PyStr(Get(columns, row, "InvoiceNo", Str(<<>>))))
        invoice_date   == Get(columns, row, "InvoiceDate", Str(<<>>))
        item_code      == Strip(PyStr(Get(columns, row, "ItemCode", Str(<<>>))))
        item_name      == Strip(PyStr(Get(columns, row, "ItemName", Str(<<>>))))
        qty0           == clean_numeric_value(Get(columns, row, "Qty", Num(0)))
        price_after_tax == clean_numeric_value(Get(columns, row, "PriceAfterTax", Num(0)))
        invoice_amount == clean_numeric_value(Get(columns, row, "InvoiceAmount", Num(0)))
    IN  IF qty0.k = "raise" \/ price_after_tax.k = "raise" \/ invoice_amount.k = "raise"
        THEN Raise
        ELSE
        LET qty          == PyMax(qty0, 100)
            total_amount == PyMax(IF Positive(invoice_amount) THEN invoice_amount
                                  ELSE price_after_tax, 0)
            tax          == calculate_dpp_and_ppn(total_amount)
            dpp_total    == tax[1]
            ppn_total    == tax[2]
            formatted_date == format_date(invoice_date, now, pads)
            jumlah       == QuantityOf(qty)
        IN  IF formatted_date.k = "raise" \/ jumlah.k = "raise" THEN Raise
            ELSE validate_record(
                [baris |-> Num((idx + 1) * 100),
                 barang_jasa |-> Str(<<"A">>),
                 kode_barang_jasa |->
                     IF item_code # <<>> THEN Str(Prefix(item_code, 20)) ELSE Str(DefaultCode),
                 nama_barang_jasa |->
                     IF item_name # <<>> THEN Str(Prefix(item_name, 255)) ELSE Str(DefaultName),
                 nama_satuan_ukur |-> Str(UnitLabel),
                 harga_satuan |-> safe_round_quot(dpp_total, qty),
                 jumlah_barang_jasa |-> jumlah,
                 total_diskon |-> Num(0),
                 dpp |-> safe_round(dpp_total),
                 dpp_nilai_lain |-> safe_round(dpp_total),
                 tarif_ppn |-> Num(1200),
                 ppn |-> safe_round(ppn_total),
                 tarif_ppnbm |-> Num(0),
                 ppnbm |-> Num(0),
                 customer_code |-> Str(customer_code),
                 customer_name |-> Str(customer_name),
                 invoice_no |-> Str(invoice_no),
                 invoice_date |-> formatted_date,
                 total_amount |-> safe_round(total_amount)])

\* the iteration with the fallback numbered idx instead of idx + 1
process_row_fallback_idx(columns, row, idx, now, pads) ==
    LET built == build_record(columns, row, idx, now, pads)
    IN  IF built = Raise THEN create_fallback_record(idx, now, pads) ELSE built

\* one iteration of the loop: the record appended for the row at index idx
process_row(columns, row, idx, now, pads) ==
    LET built == build_record(columns, row, idx, now, pads)
    IN  IF built = Raise THEN create_fallback_record(idx + 1, now, pads) ELSE built

----------------------------------------------------------------------------
(* The workbook and CoreTaxConverter.create_core_tax_excel *)

\* '0012328415631000'
company_npwp ==
    <<"0", "0", "1", "2", "3", "2", "8", "4", "1", "5", "6", "3", "1", "0", "0", "0">>

\* 'NPWP Penjual'
NpwpPenjual ==
    <<"N", "P", "W", "P", " ", "P", "e", "n", "j", "u", "a", "l">>

\* 'Jenis Faktur'
JenisFaktur ==
    <<"J", "e", "n", "i", "s", " ", "F", "a", "k", "t", "u", "r">>

\* 'Keterangan Tambahan'
KeteranganTambahan ==
    <<"K", "e", "t", "e", "r", "a", "n", "g", "a", "n", " ", "T", "a", "m", "b", "a",
    "h", "a", "n">>

\* 'Normal'
Normal ==
    <<"N", "o", "r", "m", "a", "l">>

\* headers of create_detail_faktur_sheet
headers ==
    << <<"B", "a", "r", "i", "s">>,
       <<"B", "a", "r", "a", "n", "g", ".", "J", "a", "s", "a">>,
       <<"K", "o", "d", "e", " ", "B", "a", "r", "a", "n", "g", " ", "J", "a", "s",
         "a">>,
       <<"N", "a", "m", "a", " ", "B", "a", "r", "a", "n", "g", ".", "J", "a", "s",
         "a">>,
       <<"N", "a", "m", "a", " ", "S", "a", "t", "u", "a", "n", " ", "U", "k", "u",
         "r">>,
       <<"H", "a", "r", "g", "a", " ", "S", "a", "t", "u", "a", "n">>,
       <<"J", "u", "m", "l", "a", "h", " ", "B", "a", "r", "a", "n", "g", " ", "J",
         "a", "s", "a">>,
       <<"T", "o", "t", "a", "l", " ", "D", "i", "s", "k", "o", "n">>,
       <<"D", "P", "P">>,
       <<"D", "P", "P", " ", "N", "i", "l", "a", "i", " ", "L", "a", "i", "n">>,
       <<"T", "a", "r", "i", "f", " ", "P", "P", "N">>,
       <<"P", "P", "N">>,
       <<"T", "a", "r", "i", "f", " ", "P", "P", "n", "B", "M">>,
       <<"P", "P", "n", "B", "M">> >>

\* headers of create_keterangan_sheet
keterangan_headers ==
    << <<"K", "o", "l", "o", "m">>,
       <<"M", "a", "n", "d", "a", "t", "o", "r", "y">>,
       <<"V", "a", "l", "i", "d", "a", "s", "i", " ", "D", "J", "P">>,
       <<"K", "e", "t", "e", "r", "a", "n", "g", "a", "n">> >>

\* the record keys with harga_satuan and jumlah_barang_jasa written in each
\* other's column
DetailKeysSwapped ==
    <<"baris", "barang_jasa", "kode_barang_jasa", "nama_barang_jasa",
      "nama_satuan_ukur", "jumlah_barang_jasa", "harga_satuan", "total_diskon",
      "dpp", "dpp_nilai_lain", "tarif_ppn", "ppn", "tarif_ppnbm", "ppnbm">>

\* the record key create_detail_faktur_sheet writes to each column
DetailKeys ==
    <<"baris", "barang_jasa", "kode_barang_jasa", "nama_barang_jasa",
      "nama_satuan_ukur", "harga_satuan", "jumlah_barang_jasa", "total_diskon",
      "dpp", "dpp_nilai_lain", "tarif_ppn", "ppn", "tarif_ppnbm", "ppnbm">>

\* a sheet just created by wb.create_sheet(name)
NewSheet(name) == [name |-> name, cells |-> [x \in {} |-> None]]

\* sheet.cell(row, column, value) / sheet['A1'] = value, once it succeeded
SetCell(cells, row, col, value) ==
    [x \in (DOMAIN cells) \cup {<<row, col>>} |->
        IF x = <<row, col>> THEN value ELSE cells[x]]

\* sheet.max_row
MaxRow(sheet) ==
    IF DOMAIN sheet.cells = {} THEN 1
    ELSE CHOOSE r \in {x[1] : x \in DOMAIN sheet.cells} :
             \A x \in DOMAIN sheet.cells : x[1] <= r

\* openpyxl refuses the value: a string with a control character
\* (IllegalCharacterError) or an object it cannot convert (ValueError)
CellRejects(value) ==
    \/ value.k = "str" /\ \E j \in 1..Len(value.s) : value.s[j] \in IllegalChars
    \/ value.k = "series"

\* the columns safe_write_cell fills with 0 when the value is None
NoneZeroCols == {6, 8, 9, 10, 12, 14}

\* the columns safe_write_cell fills with 0 when the write raised
RaiseZeroCols == {1, 6, 7, 8, 9, 10, 11, 12, 13, 14}

\* safe_write_cell that blanks only the exact spelling 'nan'
safe_cell_value_exact(col, value) ==
    LET safe_value ==
            IF IsFloat(value) THEN (IF IsFinite(value) THEN value ELSE Num(0))
            ELSE IF value.k = "str" THEN
                (IF value.s # <<"n", "a", "n">> THEN value ELSE Str(<<>>))
            ELSE IF value.k = "none" THEN
                (IF col \in NoneZeroCols THEN Num(0) ELSE Str(<<>>))
            ELSE value
    IN  IF CellRejects(safe_value)
        THEN (IF col \in RaiseZeroCols THEN Num(0) ELSE Str(<<>>))
        ELSE safe_value

\* safe_write_cell: the value the cell holds afterwards
safe_cell_value(col, value) ==
    LET safe_value ==
            IF IsFloat(value) THEN (IF IsFinite(value) THEN value ELSE Num(0))
            ELSE IF value.k = "str" THEN
                (IF Lower(value.s) # <<"n", "a", "n">> THEN value ELSE Str(<<>>))
            ELSE IF value.k = "none" THEN
                (IF col \in NoneZeroCols THEN Num(0) ELSE Str(<<>>))
            ELSE value
    IN  IF CellRejects(safe_value)
        THEN (IF col \in RaiseZeroCols THEN Num(0) ELSE Str(<<>>))
        ELSE safe_value

safe_write_cell(cells, row, col, value) ==
    SetCell(cells, row, col, safe_cell_value(col, value))

\* the fallback value of a column when reading the record raised
row_fallback_value(col) ==
    IF col \in {6, 8, 9, 10, 12, 14} THEN Num(0)
    ELSE IF col = 7 THEN Num(100)
    ELSE IF col = 2 THEN Str(<<"A">>)
    ELSE Str(<<>>)

\* cells after writing columns 1..upto of the record at row_idx
RECURSIVE write_columns(_, _, _, _)
write_columns(cells, row_idx, record, upto) ==
    IF upto = 0 THEN cells
    ELSE safe_write_cell(write_columns(cells, row_idx, record, upto - 1),
                         row_idx, upto, record[DetailKeys[upto]])

\* cells after writing the fallback values to columns 1..upto at row_idx
RECURSIVE write_fallback(_, _, _)
write_fallback(cells, row_idx, upto) ==
    IF upto = 0 THEN cells
    ELSE safe_write_cell(write_fallback(cells, row_idx, upto - 1),
                         row_idx, upto, row_fallback_value(upto))

\* one iteration of the data loop of create_detail_faktur_sheet: record['key']
\* raises KeyError at the first missing key, after the columns before it were written
write_detail_row(cells, row_idx, record) ==
    LET missing == {c \in 1..14 : DetailKeys[c] \notin DOMAIN record}
    IN  IF missing = {} THEN write_columns(cells, row_idx, record, 14)
        ELSE LET first == CHOOSE c \in missing : \A d \in missing : c <= d
             IN  write_fallback(write_columns(cells, row_idx, record, first - 1),
                                row_idx, 14)

\* the header loop of create_detail_faktur_sheet
RECURSIVE write_headers(_, _, _)
write_headers(cells, hs, upto) ==
    IF upto = 0 THEN cells
    ELSE SetCell(write_headers(cells, hs, upto - 1), 1, upto, Str(hs[upto]))

\* create_faktur_sheet: the sample rows 4..upto
RECURSIVE faktur_rows(_, _)
faktur_rows(cells, upto) ==
    IF upto < 4 THEN cells
    ELSE SetCell(SetCell(faktur_rows(cells, upto - 1), upto, 1, Num((upto - 3) * 100)),
                 upto, 3, Str(Normal))

create_faktur_sheet(sheet, npwp) ==
    [sheet EXCEPT !.cells =
        faktur_rows(
            SetCell(SetCell(SetCell(SetCell(SetCell(@,
                1, 1, Str(NpwpPenjual)),
                1, 3, Str(npwp)),
                3, 1, Str(headers[1])),
                3, 3, Str(JenisFaktur)),
                3, 5, Str(KeteranganTambahan)),
            8)]

create_ref_sheet(sheet) ==
    [sheet EXCEPT !.cells =
        SetCell(SetCell(SetCell(@,
            1, 1, Str(<<"K", "o", "d", "e">>)),
            1, 2, Str(keterangan_headers[4])),
            2, 1, Str(DefaultName))]

create_keterangan_sheet(sheet) ==
    [sheet EXCEPT !.cells =
        SetCell(write_headers(@, keterangan_headers, 4), 2, 1,
                Str(<<"F", "a", "k", "t", "u", "r">>))]

----------------------------------------------------------------------------
(* Inputs *)

\* a digit string too long for a finite double
LongDigits == Rep("9", FloatMaxDigits + 1)

\* string arguments of clean_numeric_value
NumericStrings ==
    { Str(<<>>),
      Str(<<"n", "a", "n">>),
      Str(<<"N", "a", "N">>),
      Str(<<"N", "A", "N">>),
      Str(<<" ", "n", "a", "n", " ">>),
      Str(<<"-">>),
      Str(<<".">>),
      Str(<<"a", "b", "c">>),
      Str(<<"a", "b", "c", "1", "2", "3", ".", "4", "5", "x", "y", "z">>),
      Str(<<"0">>),
      Str(<<"-", "5">>),
      Str(<<"2", ".", "9">>),
      Str(<<"1", ".", "2", ".", "3">>),
      Str(<<"-", "-", "5">>),
      Str(<<"5", "-">>),
      Str(<<"R", "p", " ", "1", ",", "1", "2", "0">>),
      Str(<<".", "5">>),
      Str(<<"7", ".">>),
      Str(LongDigits),
      Str(<<"-">> \o LongDigits) }

\* T/1.12 or T/1.12*0.12 falls exactly on half a hundredth: there the binary
\* representation of the float, not the exact quotient, decides the rounding
Halfway(a) == a % 28 = 14

\* amounts in hundredths given to the numeric helpers
Amounts ==
    {a \in (-3..60) \cup {112, 114, 290, 56000, 111999, 112000} : ~Halfway(a)}

\* arguments of clean_numeric_value and calculate_dpp_and_ppn
NumericInputs ==
    {None, NaN, Inf, NegInf, Timestamp, Series} \cup NumericStrings
        \cup {Num(a) : a \in Amounts}

\* string arguments of format_date
DateStrings ==
    { Str(<<"1", "5", ".", "0", "3", ".", "2", "4">>),
      Str(<<"0", "1", "/", "0", "2", "/", "2", "0", "2", "4">>),
      Str(<<"2", "0", "2", "4", "-", "0", "3", "-", "1", "5">>),
      Str(<<"1", "5", "-", "0", "3", "-", "2", "0", "2", "4">>),
      Str(<<"1", ".", "3", ".", "2", "4">>),
      Str(<<" ", "1", ".", "3", ".", "2", "4">>),
      Str(<<"1", "5", ".", "0", "3", ".", "2", "4", " ">>),
      Str(<<" ", "1", "5", ".", "0", "3", ".", "2", "4">>),
      Str(<<"1", "5", ".", "0", "3", ".", "6", "9">>),
      Str(<<"1", "5", ".", "0", "3", ".", "6", "8">>),
      Str(<<"3", "0", "/", "0", "2", "/", "2", "0", "2", "4">>),
      Str(<<"2", "9", "/", "0", "2", "/", "2", "0", "2", "4">>),
      Str(<<"2", "9", "/", "0", "2", "/", "2", "0", "2", "3">>),
      Str(<<"3", "1", "/", "0", "4", "/", "2", "0", "2", "4">>),
      Str(<<"0", "1", "/", "0", "1", "/", "0", "9", "9", "9">>),
      Str(<<"0", "1", "/", "0", "1", "/", "0", "0", "0", "0">>),
      Str(<<"0", "9", "9", "9", "-", "0", "1", "-", "0", "1">>),
      Str(<<"2", "0", "2", "4", "/", "0", "3", "/", "1", "5">>),
      Str(<<"1", "5", ".", "0", "3", ".", "2", "0", "2", "4">>),
      Str(<<"0", "3", "-", "1", "5", "-", "2", "0", "2", "4">>),
      Str(<<"2", "0", "2", "4", "-", "3", "-", "5">>),
      Str(<<>>),
      Str(<<"a", "b", "c">>),
      Str(<<"0", "0", "/", "0", "1", "/", "2", "0", "2", "4">>),
      Str(<<"0", "1", "/", "1", "3", "/", "2", "0", "2", "4">>),
      Str(<<"1", "5", ".", "0", "3", ".", "2", "4", ".", "1">>) }

\* arguments of format_date
DateInputs == {None, NaN, Timestamp, Series, Num(4536500)} \cup DateStrings

\* values of datetime.now() (the date part)
Todays == {<<2026, 11, 3>>, <<2024, 2, 29>>}

\* a record as process_sales_data builds it for a sale of 2 units at 1120.00
SampleRecord ==
    [baris |-> Num(100),
     barang_jasa |-> Str(<<"A">>),
     kode_barang_jasa |-> Str(<<"K", "1">>),
     nama_barang_jasa |-> Str(<<"K", "o", "p", "i">>),
     nama_satuan_ukur |-> Str(UnitLabel),
     harga_satuan |-> Num(50000),
     jumlah_barang_jasa |-> Num(200),
     total_diskon |-> Num(0),
     dpp |-> Num(100000),
     dpp_nilai_lain |-> Num(100000),
     tarif_ppn |-> Num(1200),
     ppn |-> Num(12000),
     tarif_ppnbm |-> Num(0),
     ppnbm |-> Num(0),
     customer_code |-> Str(<<"C", "0", "1">>),
     customer_name |-> Str(<<"T", "o", "k", "o">>),
     invoice_no |-> Str(<<"I", "N", "V", "1">>),
     invoice_date |-> Str(strftime(<<2024, 3, 15>>, TRUE)),
     total_amount |-> Num(112000)]

\* records given directly to validate_record: clean and unclean fields
DirtyRecords ==
    { [SampleRecord EXCEPT !.harga_satuan = h, !.jumlah_barang_jasa = q,
                           !.customer_code = c, !.invoice_no = v] :
        h \in {Num(50000), NaN, Inf, NegInf},
        q \in {Num(200), NaN},
        c \in {Str(<<"C", "0", "1">>), Str(<<"n", "a", "n">>), Str(<<"N", "a", "N">>),
               Str(<<" ", "n", "a", "n">>)},
        v \in {Str(<<"I", "N", "V", "1">>), None, Timestamp} }

\* SampleRecord without its 'dpp' key
RecordWithoutDpp ==
    [key \in (DOMAIN SampleRecord) \ {"dpp"} |-> SampleRecord[key]]

\* records given directly to create_core_tax_excel
RenderRecords ==
    { SampleRecord,
      create_fallback_record(2, <<2026, 11, 3>>, TRUE),
      [SampleRecord EXCEPT !.baris = Num(700), !.harga_satuan = Num(34483),
                           !.jumlah_barang_jasa = Num(200)],
      [SampleRecord EXCEPT !.nama_barang_jasa = Str(<<"K", "BEL", "o">>)],
      [SampleRecord EXCEPT !.dpp = NaN, !.ppn = Inf, !.kode_barang_jasa = Str(<<"N", "A", "N">>),
                           !.nama_barang_jasa = None, !.harga_satuan = None],
      [SampleRecord EXCEPT !.dpp_nilai_lain = NegInf, !.nama_satuan_ukur = Str(<<"n", "a", "n">>),
                           !.barang_jasa = Str(<<"A", "BEL">>), !.baris = None],
      RecordWithoutDpp }

\* the sequences over set of length at most n
RECURSIVE SeqsUpTo(_, _)
SeqsUpTo(set, n) ==
    IF n = 0 THEN {<<>>}
    ELSE LET shorter == SeqsUpTo(set, n - 1)
         IN  shorter \cup {Append(q, x) : q \in {t \in shorter : Len(t) = n - 1}, x \in set}

(* DataFrames *)

Col(name) == StrLabel(name, FALSE)

\* the nine columns of the ERP export
FullColumns ==
    <<Col("CustomerCode"), Col("CustomerName"), Col("InvoiceNo"), Col("InvoiceDate"),
      Col("ItemCode"), Col("ItemName"), Col("Qty"), Col("PriceAfterTax"),
      Col("InvoiceAmount")>>

Row(cc, cn, ino, idate, icode, iname, qty, pat, amt) ==
    <<cc, cn, ino, idate, icode, iname, qty, pat, amt>>

BaseRow ==
    Row(Str(<<"C", "0", "1">>), Str(<<"T", "o", "k", "o">>), Str(<<"I", "N", "V", "1">>),
        Str(<<"1", "5", ".", "0", "3", ".", "2", "4">>), Str(<<"K", "1">>), Str(<<"K", "o", "p", "i">>),
        Num(200), Num(112000), Num(0))

\* Qty cells
QtyCells ==
    {Num(200), Num(290), Num(0), Num(-500), Num(50), NaN, Str(<<>>), Str(<<"a", "b", "c">>),
     Str(<<"3">>), Str(LongDigits)}

\* PriceAfterTax and InvoiceAmount cells
AmountCells ==
    {Num(112000), Num(56000), Num(5), Num(0), Num(-100), NaN, Str(<<"n", "a", "n">>),
     Str(LongDigits)}

\* CustomerCode cells
CustomerCells ==
    {Str(<<"C", "0", "1">>), NaN, Str(<<"n", "a", "n">>), Str(<<" ", "N", "a", "N", " ">>),
     Str(<<>>), Num(100100), Timestamp}

\* ItemCode cells
CodeCells ==
    {Str(<<"K", "1">>), NaN, Str(<<>>), Str(<<" ", " ">>), Str(Rep("7", 25)), Num(31000000)}

\* ItemName cells
NameCells ==
    {Str(<<"K", "o", "p", "i">>), NaN, Str(<<>>), Str(Rep("x", 300)),
     Str(<<"K", "BEL", "o">>), Str(<<"N", "A", "N">>)}

\* InvoiceDate cells
DateCells == (DateInputs \ {None, Series})

\* single rows over the nine columns: numeric cells, string cells, date cells varied
WideRows ==
    {[BaseRow EXCEPT ![7] = q, ![8] = p, ![9] = a] :
        q \in QtyCells, p \in AmountCells, a \in AmountCells}
    \cup {[BaseRow EXCEPT ![1] = c, ![5] = k, ![6] = m] :
        c \in CustomerCells, k \in CodeCells, m \in NameCells}
    \cup {[BaseRow EXCEPT ![4] = d] : d \in DateCells}

\* rows of the multi-row tables: a plain sale, a row whose Qty makes the build
\* raise, an empty row
NarrowRows ==
    { BaseRow,
      [BaseRow EXCEPT ![7] = Str(LongDigits)],
      Row(NaN, NaN, NaN, NaN, NaN, NaN, NaN, NaN, NaN) }

Frame(columns, rows) == [columns |-> columns, rows |-> rows]

\* the frame of an empty sheet
EmptyFrame == Frame(<<>>, <<>>)

\* the tables pd.read_excel may return
Tables ==
    {Frame(FullColumns, rs) : rs \in SeqsUpTo(NarrowRows, MaxRows)}
    \cup {Frame(FullColumns, <<r>>) : r \in WideRows}
    \cup {EmptyFrame}
    \* every label padded with whitespace
    \cup {Frame([j \in 1..9 |-> StrLabel(FullColumns[j].name, TRUE)], <<BaseRow>>)}
    \* a label that duplicates another one once stripped
    \cup {Frame(Append(FullColumns, StrLabel(name, TRUE)), <<Append(BaseRow, extra)>>) :
            name \in {"Qty", "InvoiceDate", "ItemName", "InvoiceAmount"},
            extra \in {Num(300)}}
    \* numeric labels only, and numeric labels among strings
    \cup {Frame(<<IntLabel("1"), IntLabel("2")>>, << <<q, p>> >>) :
            q \in {Num(200), NaN}, p \in {Num(112000)}}
    \cup {Frame(<<Col("Qty"), IntLabel("2")>>, << <<Num(200), Num(112000)>> >>)}
    \* columns missing
    \cup {Frame(<<Col("ItemName"), Col("PriceAfterTax")>>, << <<m, p>> >>) :
            m \in {Str(<<"K", "o", "p", "i">>), NaN}, p \in {Num(112000), Str(<<>>)}}

----------------------------------------------------------------------------
(* State machine *)

Unset == [k |-> "unset", n |-> 0, s |-> <<>>]

\* the helpers called directly, each with the arguments it is given
HelperInputs(name) ==
    IF name = "clean_numeric_value" THEN NumericInputs
    ELSE IF name = "calculate_dpp_and_ppn" THEN NumericInputs
    ELSE IF name = "format_date" THEN DateInputs
    ELSE DirtyRecords

Helpers == {"clean_numeric_value", "calculate_dpp_and_ppn", "format_date", "validate_record"}

\* what every entry point starts from
InitCommon ==
    /\ today \in Todays
    /\ libc_pads_year \in BOOLEAN
    /\ i = 0
    /\ wb = <<>>
    /\ response = "pending"

\* POST /convert/ with an uploaded file
InitConvert ==
    /\ call = "convert"
    /\ pc = "check_ext"
    /\ \/ upload = [ext_ok |-> FALSE, readable |-> FALSE] /\ sales_df = EmptyFrame
       \/ upload = [ext_ok |-> TRUE, readable |-> FALSE] /\ sales_df = EmptyFrame
       \/ upload = [ext_ok |-> TRUE, readable |-> TRUE] /\ sales_df \in Tables
    /\ sales_df0 = sales_df
    /\ processed_data = <<>>
    /\ fn = "none" /\ arg = Unset /\ ret = Unset

\* create_core_tax_excel called with a sequence of records
InitRender ==
    /\ call = "render"
    /\ pc = "workbook"
    /\ upload = [ext_ok |-> TRUE, readable |-> TRUE]
    /\ sales_df = EmptyFrame /\ sales_df0 = EmptyFrame
    /\ processed_data \in SeqsUpTo(RenderRecords, MaxRecords)
    /\ fn = "none" /\ arg = Unset /\ ret = Unset

\* a helper of the converter called with one argument
InitHelper ==
    /\ call = "fn"
    /\ pc = "call"
    /\ upload = [ext_ok |-> TRUE, readable |-> TRUE]
    /\ sales_df = EmptyFrame /\ sales_df0 = EmptyFrame
    /\ processed_data = <<>>
    /\ fn \in Helpers
    /\ arg \in HelperInputs(fn)
    /\ ret = Unset

Init == InitCommon /\ (InitConvert \/ InitRender \/ InitHelper)

env == <<today, libc_pads_year>>

(* convert_file *)

\* if not file.filename.endswith(('.xlsx', '.xls')): raise HTTPException(400)
CheckExtension ==
    /\ call = "convert" /\ pc = "check_ext"
    /\ IF upload.ext_ok
       THEN pc' = "read" /\ response' = response
       ELSE pc' = "done" /\ response' = "400"
    /\ UNCHANGED <<call, upload, sales_df, sales_df0, i, processed_data, wb, env, fn, arg, ret>>

\* df = pd.read_excel(io.BytesIO(contents)); a failure lands in except Exception
ReadExcel ==
    /\ call = "convert" /\ pc = "read"
    /\ IF upload.readable
       THEN pc' = "strip" /\ response' = response
       ELSE pc' = "done" /\ response' = "500"
    /\ UNCHANGED <<call, upload, sales_df, sales_df0, i, processed_data, wb, env, fn, arg, ret>>

(* process_sales_data *)

\* sales_df.columns = sales_df.columns.str.strip(); processed_data = []
CleanColumnNames ==
    /\ call = "convert" /\ pc = "strip"
    /\ IF StrAccessorRaises(sales_df.columns)
       THEN pc' = "psd_raised" /\ UNCHANGED <<sales_df, processed_data, i>>
       ELSE /\ pc' = "rows"
            /\ sales_df' = [sales_df EXCEPT !.columns = StripColumns(@)]
            /\ processed_data' = <<>>
            /\ i' = 0
    /\ UNCHANGED <<call, upload, sales_df0, wb, env, fn, arg, ret, response>>

\* one iteration of for idx, row in sales_df.iterrows()
ProcessRow ==
    /\ call = "convert" /\ pc = "rows"
    /\ i < Len(sales_df.rows)
    /\ processed_data' =
           Append(processed_data,
                  process_row(sales_df.columns, sales_df.rows[i + 1], i, today, libc_pads_year))
    /\ i' = i + 1
    /\ UNCHANGED <<call, pc, upload, sales_df, sales_df0, wb, env, fn, arg, ret, response>>

\* return processed_data
ReturnProcessed ==
    /\ call = "convert" /\ pc = "rows"
    /\ i = Len(sales_df.rows)
    /\ pc' = "psd_returned"
    /\ UNCHANGED <<call, upload, sales_df, sales_df0, i, processed_data, wb, env, fn, arg, ret,
                   response>>

\* the exception of process_sales_data reaches except Exception of convert_file
HandleRaised ==
    /\ call = "convert" /\ pc = "psd_raised"
    /\ pc' = "done"
    /\ response' = "500"
    /\ UNCHANGED <<call, upload, sales_df, sales_df0, i, processed_data, wb, env, fn, arg, ret>>

\* if not processed_data: raise HTTPException(400), which except Exception of
\* convert_file catches and raises again as 500
CheckProcessed ==
    /\ call = "convert" /\ pc = "psd_returned"
    /\ IF processed_data = <<>>
       THEN pc' = "done" /\ response' = "500"
       ELSE pc' = "workbook" /\ response' = response
    /\ UNCHANGED <<call, upload, sales_df, sales_df0, i, processed_data, wb, env, fn, arg, ret>>

(* create_core_tax_excel *)

\* wb = openpyxl.Workbook(); wb.remove(wb.active); the Faktur sheet
CreateFaktur ==
    /\ pc = "workbook"
    /\ wb' = <<create_faktur_sheet(NewSheet("Faktur"), company_npwp)>>
    /\ pc' = "detail"
    /\ UNCHANGED <<call, upload, sales_df, sales_df0, i, processed_data, env, fn, arg, ret,
                   response>>

\* wb.create_sheet("DetailFaktur") and the header loop of create_detail_faktur_sheet
CreateDetailHeader ==
    /\ pc = "detail"
    /\ wb' = Append(wb, [NewSheet("DetailFaktur") EXCEPT
                             !.cells = write_headers(@, headers, 14)])
    /\ i' = 0
    /\ pc' = "detail_rows"
    /\ UNCHANGED <<call, upload, sales_df, sales_df0, processed_data, env, fn, arg, ret,
                   response>>

\* one iteration of for row_idx, record in enumerate(processed_data, 2)
WriteDetailRow ==
    /\ pc = "detail_rows"
    /\ i < Len(processed_data)
    /\ wb' = [wb EXCEPT ![2].cells = write_detail_row(@, i + 2, processed_data[i + 1])]
    /\ i' = i + 1
    /\ UNCHANGED <<call, pc, upload, sales_df, sales_df0, processed_data, env, fn, arg, ret,
                   response>>

\* the REF sheet
CreateRef ==
    /\ pc = "detail_rows"
    /\ i = Len(processed_data)
    /\ wb' = Append(wb, create_ref_sheet(NewSheet("REF")))
    /\ pc' = "keterangan"
    /\ UNCHANGED <<call, upload, sales_df, sales_df0, i, processed_data, env, fn, arg, ret,
                   response>>

\* the Keterangan sheet; return wb
CreateKeterangan ==
    /\ pc = "keterangan"
    /\ wb' = Append(wb, create_keterangan_sheet(NewSheet("Keterangan")))
    /\ pc' = "wb_returned"
    /\ UNCHANGED <<call, upload, sales_df, sales_df0, i, processed_data, env, fn, arg, ret,
                   response>>

\* workbook.save(output); return StreamingResponse(...)
SendWorkbook ==
    /\ call = "convert" /\ pc = "wb_returned"
    /\ pc' = "done"
    /\ response' = "200"
    /\ UNCHANGED <<call, upload, sales_df, sales_df0, i, processed_data, wb, env, fn, arg, ret>>

(* helpers called directly *)

CallCleanNumeric ==
    /\ call = "fn" /\ pc = "call" /\ fn = "clean_numeric_value"
    /\ ret' = clean_numeric_value(arg)
    /\ pc' = "returned"
    /\ UNCHANGED <<call, upload, sales_df, sales_df0, i, processed_data, wb, env, fn, arg,
                   response>>

CallCalculate ==
    /\ call = "fn" /\ pc = "call" /\ fn = "calculate_dpp_and_ppn"
    /\ ret' = calculate_dpp_and_ppn(arg)
    /\ pc' = "returned"
    /\ UNCHANGED <<call, upload, sales_df, sales_df0, i, processed_data, wb, env, fn, arg,
                   response>>

CallFormatDate ==
    /\ call = "fn" /\ pc = "call" /\ fn = "format_date"
    /\ ret' = format_date(arg, today, libc_pads_year)
    /\ pc' = "returned"
    /\ UNCHANGED <<call, upload, sales_df, sales_df0, i, processed_data, wb, env, fn, arg,
                   response>>

CallValidate ==
    /\ call = "fn" /\ pc = "call" /\ fn = "validate_record"
    /\ ret' = <<validate_record(arg)>>
    /\ pc' = "returned"
    /\ UNCHANGED <<call, upload, sales_df, sales_df0, i, processed_data, wb, env, fn, arg,
                   response>>

\* validate_record applied to its own result; ret lists the successive results
CallValidateAgain ==
    /\ call = "fn" /\ pc = "returned" /\ fn = "validate_record"
    /\ ret' = Append(ret, validate_record(ret[Len(ret)]))
    /\ pc' = "returned_again"
    /\ UNCHANGED <<call, upload, sales_df, sales_df0, i, processed_data, wb, env, fn, arg,
                   response>>

Next ==
    \/ CheckExtension
    \/ ReadExcel
    \/ CleanColumnNames
    \/ ProcessRow
    \/ ReturnProcessed
    \/ HandleRaised
    \/ CheckProcessed
    \/ CreateFaktur
    \/ CreateDetailHeader
    \/ WriteDetailRow
    \/ CreateRef
    \/ CreateKeterangan
    \/ SendWorkbook
    \/ CallCleanNumeric
    \/ CallCalculate
    \/ CallFormatDate
    \/ CallValidate
    \/ CallValidateAgain

Spec == Init /\ [][Next]_vars

----------------------------------------------------------------------------
(* Properties *)

NanText == <<"n", "a", "n">>

\* the fields of a record that hold numbers, and those that hold strings
NumericKeys ==
    {"baris", "harga_satuan", "jumlah_barang_jasa", "total_diskon", "dpp",
     "dpp_nilai_lain", "tarif_ppn", "ppn", "tarif_ppnbm", "ppnbm", "total_amount"}

StringKeys == {RecordKeys[j] : j \in 1..Len(RecordKeys)} \ NumericKeys

\* process_sales_data has returned its list
Returned == call = "convert" /\ pc = "psd_returned"

\* the record at position j is the fallback record
IsFallback(j) == processed_data[j].nama_barang_jasa = Str(SentinelName)

\* C1: process_sales_data never raises and returns exactly one record per
\* input row, whatever rows throw while being built.
C1_NeverRaisesOneRecordPerRow ==
    call = "convert" =>
        /\ pc # "psd_raised"
        /\ pc = "psd_returned" => Len(processed_data) = Len(sales_df.rows)

\* C2: the 'baris' values of the records returned by process_sales_data are
\* exactly 1, 2, ..., N in that order, whatever rows took the fallback path.
C2_RowNumbers ==
    Returned =>
        /\ Len(processed_data) = Len(sales_df.rows)
        /\ \A j \in 1..Len(processed_data) : processed_data[j].baris = Num(j * 100)

\* a two-row table whose first row fell back and whose second row did not
C2_Witness ==
    /\ Returned
    /\ Len(processed_data) = 2
    /\ IsFallback(1)
    /\ ~IsFallback(2)

\* C3: in every record process_sales_data returns, every numeric field is a
\* finite number and no string field is "nan" in any letter case.
C3_FiniteNoNanText ==
    call = "convert" =>
        \A j \in 1..Len(processed_data) :
            LET r == processed_data[j]
            IN  /\ \A key \in NumericKeys : IsFinite(r[key])
                /\ \A key \in StringKeys : r[key].k = "str" /\ Lower(r[key].s) # NanText

\* a row whose CustomerCode cell is ' NaN ' and whose InvoiceAmount cell is a
\* digit string that parses to infinity, built on the normal path
C3_Witness ==
    /\ Returned
    /\ \E j \in 1..Len(processed_data) :
        /\ sales_df.columns = FullColumns
        /\ \/ sales_df.rows[j][1] = Str(<<" ", "N", "a", "N", " ">>)
           \/ sales_df.rows[j][1] = NaN
        /\ processed_data[j].customer_code = Str(<<>>)
        /\ ~IsFallback(j)

\* C4: clean_numeric_value returns a finite number for every input: missing,
\* NaN, +/-infinity, strings of any content and length, numbers.
C4_CleanNumericFinite ==
    (call = "fn" /\ fn = "clean_numeric_value" /\ pc = "returned"
        /\ arg.k \in {"none", "nan", "inf", "ninf", "str", "num"})
    => IsFinite(ret)

\* round(T / 1.12, 2) for T hundredths, in hundredths
RefDpp(T) == RoundHalfEven(T * 100, 112)

CalculateReturned ==
    call = "fn" /\ fn = "calculate_dpp_and_ppn" /\ pc = "returned" /\ arg.k = "num"

\* C5 as stated: calculate_dpp_and_ppn(T) is (0.0, 0.0) for T <= 0 and
\* (round(T/1.12, 2), round(round(T/1.12, 2) * 0.12, 2)) for T > 0.
C5_PpnOfRoundedDpp ==
    CalculateReturned =>
        IF arg.n <= 0 THEN ret = <<Num(0), Num(0)>>
        ELSE ret = <<Num(RefDpp(arg.n)), Num(RoundHalfEven(RefDpp(arg.n) * 12, 100))>>

\* C5 amended: calculate_dpp_and_ppn(T) is (0.0, 0.0) for T <= 0 and
\* (round(T/1.12, 2), round(T/1.12 * 0.12, 2)) for T > 0: the tax amount is
\* 12% of the unrounded tax base.
C5_PpnOfUnroundedDpp ==
    CalculateReturned =>
        IF arg.n <= 0 THEN ret = <<Num(0), Num(0)>>
        ELSE ret = <<Num(RefDpp(arg.n)), Num(RoundHalfEven(arg.n * 12, 112))>>

\* 1120.00 gives (1000.00, 120.00)
C5_Witness ==
    CalculateReturned /\ arg = Num(112000) /\ ret = <<Num(100000), Num(12000)>>

\* C6: harga_satuan of every record equals dpp divided by the emitted
\* jumlah_barang_jasa, rounded to 2 decimal places.
C6_UnitPriceOfEmittedQuantity ==
    call = "convert" =>
        \A j \in 1..Len(processed_data) :
            LET r == processed_data[j]
            IN  r.harga_satuan = Num(Round2(Quot(r.dpp.n, r.jumlah_barang_jasa.n)))

\* the Qty values the claim names: 0, -5, '', 'abc', an empty cell
FloorCases == {Num(0), Num(-500), Str(<<>>), Str(<<"a", "b", "c">>), NaN}

\* C7: the emitted quantity of every record is an integer >= 1, and it is 1
\* for a source Qty that is 0, negative, empty, absent or unparseable.
C7_QuantityFloor ==
    call = "convert" =>
        \A j \in 1..Len(processed_data) :
            LET q  == processed_data[j].jumlah_barang_jasa
                q0 == Get(sales_df.columns, sales_df.rows[j], "Qty", Num(0))
            IN  /\ IsFinite(q) /\ q.n % 100 = 0 /\ q.n >= 100
                /\ q0 \in FloorCases => q = Num(100)

\* a row with Qty -5 built on the normal path
C7_Witness ==
    /\ Returned
    /\ \E j \in 1..Len(processed_data) :
        /\ sales_df.columns = FullColumns
        /\ sales_df.rows[j][7] = Num(-500)
        /\ ~IsFallback(j)
        /\ processed_data[j].jumlah_barang_jasa = Num(100)

\* C8: validate_record applied to its own result returns that result, and
\* every record process_sales_data returns is a fixed point of validate_record.
C8_ValidateIdempotent ==
    /\ (call = "fn" /\ fn = "validate_record" /\ pc = "returned_again") => ret[2] = ret[1]
    /\ call = "convert" =>
        \A j \in 1..Len(processed_data) : validate_record(processed_data[j]) = processed_data[j]

\* a record holding NaN and 'nan', validated twice
C8_Witness ==
    /\ call = "fn" /\ fn = "validate_record" /\ pc = "returned_again"
    /\ arg.harga_satuan = NaN
    /\ arg.customer_code = Str(NanText)
    /\ ret[1] # arg

\* v is a string of the form YYYY-MM-DD that names a calendar date
IsIsoDate(v) ==
    /\ v.k = "str"
    /\ Len(v.s) = 10
    /\ v.s[5] = "-" /\ v.s[8] = "-"
    /\ \A j \in {1, 2, 3, 4, 6, 7, 9, 10} : IsDigit(v.s[j])
    /\ ValidDate(IntOf(SubSeq(v.s, 1, 4)), IntOf(SubSeq(v.s, 6, 7)), IntOf(SubSeq(v.s, 9, 10)))

\* today as YYYY-MM-DD
TodayText == Str(Padded(today[1], 4) \o <<"-">> \o Padded(today[2], 2) \o <<"-">>
                 \o Padded(today[3], 2))

\* C9: format_date returns the first successful parse among the four patterns
\* as YYYY-MM-DD, the current date when the value is missing or matches no
\* pattern, and always a valid calendar date in YYYY-MM-DD form.
C9_FormatDateIso ==
    (call = "fn" /\ fn = "format_date" /\ pc = "returned" /\ arg.k # "series") =>
        /\ IsIsoDate(ret)
        /\ arg = Str(<<"1", "5", ".", "0", "3", ".", "2", "4">>)
            => ret = Str(<<"2", "0", "2", "4", "-", "0", "3", "-", "1", "5">>)
        /\ arg = Str(<<"0", "1", "/", "0", "2", "/", "2", "0", "2", "4">>)
            => ret = Str(<<"2", "0", "2", "4", "-", "0", "2", "-", "0", "1">>)
        /\ (arg.k # "str" \/ \A f \in 1..4 : strptime(arg.s, date_formats[f]) = <<>>)
            => ret = TodayText

\* the 14 fields of the schema, in order
SchemaOrder == SubSeq(RecordKeys, 1, 14)

\* the record carries every field, numbers in its numeric fields and strings
\* other than 'nan' in its string fields
IsSanitized(r) ==
    /\ DOMAIN r = {RecordKeys[j] : j \in 1..Len(RecordKeys)}
    /\ \A key \in NumericKeys : IsFinite(r[key])
    /\ \A key \in StringKeys : r[key].k = "str" /\ Lower(r[key].s) # NanText

\* the workbook has the four sheets in order and a DetailFaktur sheet of the
\* header row and one 14-cell row per record
WorkbookShape ==
    /\ [j \in 1..Len(wb) |-> wb[j].name] = <<"Faktur", "DetailFaktur", "REF", "Keterangan">>
    /\ MaxRow(wb[2]) = Len(processed_data) + 1
    /\ DOMAIN wb[2].cells = (1..(Len(processed_data) + 1)) \X (1..14)
    /\ \A c \in 1..14 : wb[2].cells[<<1, c>>] = Str(headers[c])

\* C10 as stated: four sheets in order; DetailFaktur has N+1 rows, the header
\* and, at row i+1, the i-th record's 14 fields in schema order.
C10_RowsHoldRecordFields ==
    pc = "wb_returned" =>
        /\ WorkbookShape
        /\ \A j \in 1..Len(processed_data) :
            IsSanitized(processed_data[j]) =>
                \A c \in 1..14 :
                    wb[2].cells[<<j + 1, c>>] = processed_data[j][SchemaOrder[c]]

\* the workbook stores the value as it is
Storable(v) ==
    \/ IsFinite(v)
    \/ v.k = "str" /\ Lower(v.s) # NanText /\ \A j \in 1..Len(v.s) : v.s[j] \notin IllegalChars

\* C10 amended: four sheets in order; DetailFaktur has N+1 rows of 14 cells,
\* the header and, at row i+1 for a record carrying the 14 fields, in schema
\* order each field that is a finite number or a string the workbook accepts
\* other than 'nan', and 0 or the empty string in place of any other field.
C10_RowsHoldStorableFields ==
    pc = "wb_returned" =>
        /\ WorkbookShape
        /\ \A j \in 1..Len(processed_data) :
            (\A c \in 1..14 : SchemaOrder[c] \in DOMAIN processed_data[j]) =>
                \A c \in 1..14 :
                    LET v == processed_data[j][SchemaOrder[c]]
                    IN  IF Storable(v) THEN wb[2].cells[<<j + 1, c>>] = v
                        ELSE wb[2].cells[<<j + 1, c>>] \in {Num(0), Str(<<>>)}

\* two records rendered, the first with a control character in its item name
C10_Witness ==
    /\ pc = "wb_returned"
    /\ Len(processed_data) = 2
    /\ processed_data[1].nama_barang_jasa = Str(<<"K", "BEL", "o">>)
    /\ wb[2].cells[<<2, 4>>] = Str(<<>>)
    /\ wb[2].cells[<<3, 1>>] = processed_data[2].baris

\* the record given to create_core_tax_excel with unclean fields
UncleanRecord(r) ==
    /\ "dpp" \in DOMAIN r /\ r.dpp = NaN
    /\ r.ppn = Inf
    /\ r.kode_barang_jasa = Str(<<"N", "A", "N">>)
    /\ r.harga_satuan = None

\* C11: no cell of the DetailFaktur sheet ever holds a non-finite number or a
\* string equal to 'nan' in any letter case, whatever the records hold.
C11_NoNanCell ==
    Len(wb) >= 2 =>
        \A x \in DOMAIN wb[2].cells :
            LET v == wb[2].cells[x]
            IN  /\ IsFloat(v) => IsFinite(v)
                /\ v.k = "str" => Lower(v.s) # NanText

\* a record with NaN, infinity, None and 'NAN' fields was written as 0 and ''
C11_Witness ==
    /\ pc = "wb_returned"
    /\ \E j \in 1..Len(processed_data) :
        /\ UncleanRecord(processed_data[j])
        /\ wb[2].cells[<<j + 1, 9>>] = Num(0)
        /\ wb[2].cells[<<j + 1, 12>>] = Num(0)
        /\ wb[2].cells[<<j + 1, 3>>] = Str(<<>>)
        /\ wb[2].cells[<<j + 1, 6>>] = Num(0)

\* C12: a conversion request fails only when the upload cannot be read as a
\* table or the table has no row; a readable table with at least one row
\* yields a workbook.
C12_OnlyBatchErrorsFail ==
    (call = "convert" /\ pc = "done") =>
        (response = "200" <=>
            (upload.ext_ok /\ upload.readable /\ Len(sales_df.rows) >= 1))

\* the source cell of column name in row j is empty: the column is absent, or
\* the cell is the empty string or an empty cell (NaN)
SourceEmpty(j, name) ==
    Get(sales_df.columns, sales_df.rows[j], name, None) \in {None, Str(<<>>), NaN}

\* C13: kode_barang_jasa has at most 20 characters and nama_barang_jasa at most
\* 255, and a row built on the normal path whose source ItemCode (ItemName) is
\* empty has kode_barang_jasa '310000' (nama_barang_jasa 'Barang/Jasa').
C13_LengthsAndDefaults ==
    Returned =>
        \A j \in 1..Len(processed_data) :
            LET r == processed_data[j]
            IN  /\ Len(r.kode_barang_jasa.s) <= 20
                /\ Len(r.nama_barang_jasa.s) <= 255
                /\ (~IsFallback(j) /\ SourceEmpty(j, "ItemCode"))
                        => r.kode_barang_jasa = Str(DefaultCode)
                /\ (~IsFallback(j) /\ SourceEmpty(j, "ItemName"))
                        => r.nama_barang_jasa = Str(DefaultName)

\* the cleaned amount of column name in row j
CleanedAmount(j, name) ==
    clean_numeric_value(Get(sales_df.columns, sales_df.rows[j], name, Num(0)))

\* C14: the total of a row is the cleaned InvoiceAmount when it is strictly
\* positive, otherwise the cleaned PriceAfterTax, clamped to be >= 0;
\* total_amount, dpp, ppn and harga_satuan of every record are non-negative,
\* and all 0.0 when both cleaned amounts are <= 0.
C14_TotalChoice ==
    Returned =>
        \A j \in 1..Len(processed_data) :
            LET r   == processed_data[j]
                ia  == CleanedAmount(j, "InvoiceAmount")
                pat == CleanedAmount(j, "PriceAfterTax")
            IN  /\ \A key \in {"total_amount", "dpp", "ppn", "harga_satuan"} :
                        IsFinite(r[key]) /\ r[key].n >= 0
                /\ (~IsFallback(j) /\ IsFinite(ia) /\ IsFinite(pat)) =>
                        /\ ia.n > 0 => r.total_amount = ia
                        /\ (ia.n <= 0 /\ pat.n > 0) => r.total_amount = pat
                        /\ (ia.n <= 0 /\ pat.n <= 0) =>
                                \A key \in {"total_amount", "dpp", "ppn", "harga_satuan"} :
                                    r[key] = Num(0)
                        /\ r.dpp = Num(RoundHalfEven(r.total_amount.n * 100, 100 + ppn_rate))

\* a row with InvoiceAmount -1.00 and PriceAfterTax -1.00, built on the normal
\* path with all amounts 0
C14_Witness ==
    /\ Returned
    /\ \E j \in 1..Len(processed_data) :
        /\ sales_df.columns = FullColumns
        /\ sales_df.rows[j][8] = Num(-100)
        /\ sales_df.rows[j][9] = Num(-100)
        /\ ~IsFallback(j)
        /\ processed_data[j].total_amount = Num(0)
        /\ processed_data[j].dpp = Num(0)

\* building the row at position j raises: a cleaned Qty of infinity, whose
\* int() overflows, or a cell read through a duplicated label
BuildRaises(j) ==
    LET qty == clean_numeric_value(Get(sales_df.columns, sales_df.rows[j], "Qty", Num(0)))
    IN  \/ qty.k = "inf"
        \/ \E name \in {"Qty", "PriceAfterTax", "InvoiceAmount", "InvoiceDate"} :
               Get(sales_df.columns, sales_df.rows[j], name, None) = Series

\* the record process_sales_data returns for the one-row table holding row j
Alone(j) ==
    process_row(sales_df.columns, sales_df.rows[j], 0, today, libc_pads_year)

\* C15: when building the row at position i raises, the record at position i
\* is the fallback record: row number i, monetary fields 0.0, quantity 1, the
\* sentinel item name, empty customer and invoice strings, today as invoice
\* date; the other rows are as they would be without it.
C15_FallbackRecord ==
    Returned =>
        \A j \in 1..Len(processed_data) :
            LET r == processed_data[j]
            IN  /\ BuildRaises(j) =>
                    /\ r.baris = Num(j * 100)
                    /\ \A key \in {"harga_satuan", "total_diskon", "dpp", "dpp_nilai_lain",
                                    "ppn", "ppnbm", "total_amount"} : r[key] = Num(0)
                    /\ r.jumlah_barang_jasa = Num(100)
                    /\ r.nama_barang_jasa = Str(SentinelName)
                    /\ \A key \in {"customer_code", "customer_name", "invoice_no"} :
                            r[key] = Str(<<>>)
                    /\ r.invoice_date = TodayText
                /\ ~BuildRaises(j) =>
                    /\ r.nama_barang_jasa # Str(SentinelName)
                    /\ r = [Alone(j) EXCEPT !.baris = Num(j * 100)]

\* a two-row table whose second row raised and whose first row did not
C15_Witness ==
    /\ Returned
    /\ Len(processed_data) = 2
    /\ ~BuildRaises(1)
    /\ BuildRaises(2)
    /\ processed_data[2].baris = Num(200)
    /\ processed_data[1].dpp = Num(100000)

\* the neutral default of a column as the claim gives it: 0 for the numeric
\* columns, 'A' for the item-type column, the empty string otherwise
NeutralDefault(col) ==
    IF col \in {1} \cup (6..14) THEN Num(0)
    ELSE IF col = 2 THEN Str(<<"A">>)
    ELSE Str(<<>>)

\* C16: when writing a cell of the DetailFaktur sheet raises, that cell alone
\* holds its column's neutral default (0 for numeric columns, 'A' for column
\* 2, '' otherwise) and the other cells hold the values of their records.
C16_CellWriteFallback ==
    pc = "wb_returned" =>
        \A j \in 1..Len(processed_data) :
            (\A c \in 1..14 : SchemaOrder[c] \in DOMAIN processed_data[j]) =>
                \A c \in 1..14 :
                    LET v == processed_data[j][SchemaOrder[c]]
                    IN  /\ CellRejects(v) => wb[2].cells[<<j + 1, c>>] = NeutralDefault(c)
                        /\ Storable(v) => wb[2].cells[<<j + 1, c>>] = v

\* C17: process_sales_data leaves its input table (column names and row
\* values) as it was before the call.
C17_InputUnchanged ==
    (call = "convert" /\ pc \in {"psd_returned", "psd_raised"}) => sales_df = sales_df0

FormatDateReturned ==
    call = "fn" /\ fn = "format_date" /\ pc = "returned" /\ arg.k # "series"

\* the string has whitespace before or after its text
Surrounded(s) == Strip(s) # s

\* the string is one space, then a digit 1..9, and has no other surrounding
\* whitespace
SpaceThenDigit(s) ==
    /\ Len(s) >= 2
    /\ s[1] = " "
    /\ IsDigit(s[2]) /\ DigitVal(s[2]) \in 1..9
    /\ Strip(s) = Tail(s)

\* some pattern of date_formats parses the string
Parses(s) == \E f \in 1..Len(date_formats) : strptime(s, date_formats[f]) # <<>>

\* the InvoiceDate cell of row j is not a string, and the row did not fall back
NonStringDateRow(j) ==
    /\ ~IsFallback(j)
    /\ Get(sales_df.columns, sales_df.rows[j], "InvoiceDate", Str(<<>>)).k # "str"

\* C18 as stated: format_date returns the current date for every value that
\* is not a string and for every string with surrounding whitespace; only a
\* string matching one of the four patterns yields its own date.
C18_PaddedStringsGiveToday ==
    /\ FormatDateReturned =>
        /\ arg.k # "str" => ret = TodayText
        /\ (arg.k = "str" /\ Surrounded(arg.s)) => ret = TodayText
        /\ ret # TodayText => (arg.k = "str" /\ Parses(arg.s))
    /\ Returned =>
        \A j \in 1..Len(processed_data) :
            NonStringDateRow(j) => processed_data[j].invoice_date = TodayText

\* C18 amended: format_date returns the current date for every value that is
\* not a string, and for every string with surrounding whitespace other than
\* a single space before a digit 1..9; ' 1.3.24' is parsed and gives
\* '2024-03-01'; only a string that one of the four patterns parses yields
\* its own date.
C18_SpaceDayParses ==
    /\ FormatDateReturned =>
        /\ arg.k # "str" => ret = TodayText
        /\ (arg.k = "str" /\ Surrounded(arg.s) /\ ~SpaceThenDigit(arg.s)) => ret = TodayText
        /\ arg = Str(<<" ", "1", ".", "3", ".", "2", "4">>)
            => ret = Str(<<"2", "0", "2", "4", "-", "0", "3", "-", "0", "1">>)
        /\ ret # TodayText => (arg.k = "str" /\ Parses(arg.s))
    /\ Returned =>
        \A j \in 1..Len(processed_data) :
            NonStringDateRow(j) => processed_data[j].invoice_date = TodayText

\* format_date(' 1.3.24') returned '2024-03-01'
C18_Witness ==
    /\ FormatDateReturned
    /\ arg = Str(<<" ", "1", ".", "3", ".", "2", "4">>)
    /\ ret = Str(<<"2", "0", "2", "4", "-", "0", "3", "-", "0", "1">>)

====
